---- MODULE Spec2Model ----
(***************************************************************************)
(* A model of script/cohort_analysis.py: the cohort retention and churn    *)
(* risk report computed from synthetic_orders.csv.  The script is one      *)
(* straight-line batch run; pc is its position, and every other variable   *)
(* is a name the script binds (df, cohort_counts, ...) or a file or stream *)
(* it touches.                                                             *)
(*                                                                         *)
(* Values.  An order date is a [year, month] record (the day of the month  *)
(* is dropped by the only use of the date, to_period('M') at line 54).     *)
(* A monthly period is its ordinal year * 12 + month - 1, which is how     *)
(* periods are ordered.  A float is [nan, n, d]: NaN, or the exact         *)
(* fraction n / d in lowest terms with d > 0.  order_id and order_value    *)
(* are never read by the analysis and are left out of the table.           *)
(***************************************************************************)
EXTENDS Integers, Sequences, FiniteSets, TLC

\* Bounds of the exhaustively enumerated order tables (Spec).
MaxUsers == 2
NumMonths == 3
MaxOrders == 3
\* Bounds of the cohort-shaped order tables (SpecCohort).
MaxCohortSize == 10
MaxOffset == 3

\* The first month of the modelled calendar window: November 2023, so that
\* the window crosses a year boundary.
FirstOrdinal == (2023 * 12) + 10

VARIABLES pc, file, df, cohort_counts, retention_rates, is_new_cohort,
          risk_report, console, csv, xlsx

vars == <<pc, file, df, cohort_counts, retention_rates, is_new_cohort,
          risk_report, console, csv, xlsx>>

----------------------------------------------------------------------------
\* Generic helpers

RECURSIVE GCD(_, _)
GCD(a, b) == IF b = 0 THEN a ELSE GCD(b, a % b)

Abs(x) == IF x < 0 THEN -x ELSE x

SetMin(S) == CHOOSE x \in S : \A y \in S : x <= y

RECURSIVE SortedSeq(_)
SortedSeq(S) == IF S = {} THEN << >>
                ELSE LET m == SetMin(S) IN <<m>> \o SortedSeq(S \ {m})

Reverse(s) == [i \in 1..Len(s) |-> s[Len(s) + 1 - i]]

Range(s) == {s[i] : i \in 1..Len(s)}

----------------------------------------------------------------------------
\* Floats (float64 cells of the data frames), as exact fractions or NaN

NaN == [nan |-> TRUE, n |-> 0, d |-> 1]

Flt(n, d) == LET g == GCD(Abs(n), d)
             IN  [nan |-> FALSE, n |-> n \div g, d |-> d \div g]

FromInt(k) == Flt(k, 1)

\* a / b; NaN propagates (a zero divisor is not a value a count can take)
FDiv(a, b) == IF a.nan \/ b.nan \/ b.n = 0 THEN NaN
              ELSE IF b.n > 0 THEN Flt(a.n * b.d, a.d * b.n)
              ELSE Flt(-(a.n * b.d), a.d * (-b.n))

FSub(a, b) == IF a.nan \/ b.nan THEN NaN
              ELSE Flt((a.n * b.d) - (b.n * a.d), a.d * b.d)

FMulInt(a, k) == IF a.nan THEN NaN ELSE Flt(a.n * k, a.d)

\* a > k for an integer k; every comparison with NaN is false
FGtInt(a, k) == (~a.nan) /\ (a.n > k * a.d)

FGeInt(a, k) == (~a.nan) /\ (a.n >= k * a.d)

\* Series.isna / DataFrame.fillna on one cell
IsNa(a) == a.nan
FillNa(a, v) == IF a.nan THEN v ELSE a

----------------------------------------------------------------------------
\* Dates and monthly periods

\* order_date.dt.to_period('M'): the period's ordinal
ToPeriod(date) == (date.year * 12) + (date.month - 1)
\* Period.year and Period.month (the .dt accessors of lines 60-61)
PeriodYear(p) == p \div 12
PeriodMonth(p) == (p % 12) + 1

DateOfOrdinal(o) == [year |-> o \div 12, month |-> (o % 12) + 1]

Users == 1..MaxUsers
Dates == {DateOfOrdinal(o) : o \in FirstOrdinal..(FirstOrdinal + NumMonths - 1)}
OrderRows == [user_id : Users, order_date : Dates]
\* Every order table of at most MaxOrders rows, the empty one included
OrderTables == UNION {[1..k -> OrderRows] : k \in 0..MaxOrders}

EmptyFrame == [index |-> << >>, columns |-> << >>, data |-> << >>]
NoFile == [state |-> "unwritten", header |-> << >>, rows |-> << >>]
Msg(text) == [text |-> text, rows |-> << >>]

----------------------------------------------------------------------------
\* State after interpreter start-up, before line 7

InitRest ==
    /\ cohort_counts = EmptyFrame
    /\ retention_rates = EmptyFrame
    /\ is_new_cohort = << >>
    /\ risk_report = EmptyFrame
    /\ console = << >>
    /\ csv = NoFile
    /\ xlsx = NoFile

Init ==
    /\ pc = "start"
    /\ \/ file = [state |-> "absent", table |-> << >>]
       \/ file = [state |-> "unreadable", table |-> << >>]
       \/ \E t \in OrderTables : file = [state |-> "ok", table |-> t]
    /\ df = << >>
    /\ InitRest

----------------------------------------------------------------------------
\* Lines 5-38: generate the dataset when the fixed file name is absent.
\* The generator draws users and dates at random; within the modelled
\* calendar window it can write any order table.

GenerateData ==
    /\ pc = "start"
    /\ file.state = "absent"
    /\ \E t \in OrderTables : file' = [state |-> "ok", table |-> t]
    /\ console' = console \o <<Msg("Generating 'synthetic_orders.csv' as it was not found..."),
                                Msg("Data generation complete.")>>
    /\ pc' = "load"
    /\ UNCHANGED <<df, cohort_counts, retention_rates, is_new_cohort,
                   risk_report, csv, xlsx>>

SkipGenerate ==
    /\ pc = "start"
    /\ file.state # "absent"
    /\ pc' = "load"
    /\ UNCHANGED <<file, df, cohort_counts, retention_rates, is_new_cohort,
                   risk_report, console, csv, xlsx>>

\* The environment: another process removes the file after line 7 has seen
\* (or lines 8-38 have written) it and before line 45 opens it.
EnvRemoveFile ==
    /\ pc = "load"
    /\ file.state = "ok"
    /\ file' = [state |-> "absent", table |-> << >>]
    /\ UNCHANGED <<pc, df, cohort_counts, retention_rates, is_new_cohort,
                   risk_report, console, csv, xlsx>>

----------------------------------------------------------------------------
\* Lines 43-48: load the dataset

LoadOk ==
    /\ pc = "load"
    /\ file.state = "ok"
    /\ df' = file.table
    /\ pc' = "prepare"
    /\ UNCHANGED <<file, cohort_counts, retention_rates, is_new_cohort,
                   risk_report, console, csv, xlsx>>

LoadNotFound_NoExit ==
    /\ pc = "load"
    /\ file.state = "absent"
    /\ console' = Append(console, Msg("Error: 'synthetic_orders.csv' not found."))
    /\ pc' = "prepare"
    /\ UNCHANGED <<file, df, cohort_counts, retention_rates, is_new_cohort,
                   risk_report, csv, xlsx>>

\* except FileNotFoundError: print the error and exit()
LoadNotFound ==
    /\ pc = "load"
    /\ file.state = "absent"
    /\ console' = Append(console, Msg("Error: 'synthetic_orders.csv' not found."))
    /\ pc' = "exited"
    /\ UNCHANGED <<file, df, cohort_counts, retention_rates, is_new_cohort,
                   risk_report, csv, xlsx>>

\* Any other error of read_csv (a permission error, a directory, a file that
\* does not parse) is not caught: the interpreter prints the traceback and
\* the process ends.
LoadUnreadable ==
    /\ pc = "load"
    /\ file.state = "unreadable"
    /\ console' = Append(console, Msg("Traceback: read_csv"))
    /\ pc' = "crashed"
    /\ UNCHANGED <<file, df, cohort_counts, retention_rates, is_new_cohort,
                   risk_report, csv, xlsx>>

----------------------------------------------------------------------------
\* Lines 50-61: order_month, first_purchase_month, cohort_index

\* groupby('user_id')['order_month'].transform('min') for one user
FirstPurchaseMonth(table, u) ==
    SetMin({ToPeriod(table[i].order_date) : i \in {j \in 1..Len(table) : table[j].user_id = u}})

CohortIndex_NoYears(order_month, first_month) ==
    (PeriodYear(order_month) - PeriodYear(first_month))
        + (PeriodMonth(order_month) - PeriodMonth(first_month))

CohortIndex(order_month, first_month) ==
    ((PeriodYear(order_month) - PeriodYear(first_month)) * 12)
        + (PeriodMonth(order_month) - PeriodMonth(first_month))

WithCohort(table) ==
    [i \in 1..Len(table) |->
        LET om == ToPeriod(table[i].order_date)
            fm == FirstPurchaseMonth(table, table[i].user_id)
        IN  [user_id |-> table[i].user_id,
             order_date |-> table[i].order_date,
             order_month |-> om,
             first_purchase_month |-> fm,
             cohort_index |-> CohortIndex(om, fm)]]

AssignCohorts ==
    /\ pc = "prepare"
    /\ df' = WithCohort(df)
    /\ pc' = "pivot"
    /\ UNCHANGED <<file, cohort_counts, retention_rates, is_new_cohort,
                   risk_report, console, csv, xlsx>>

----------------------------------------------------------------------------
\* Lines 63-67: the retention count matrix

GroupRows(d, c, k) ==
    {i \in 1..Len(d) : d[i].first_purchase_month = c /\ d[i].cohort_index = k}

NUnique_Size(d, c, k) == Cardinality(GroupRows(d, c, k))

\* ['user_id'].nunique() of one (first_purchase_month, cohort_index) group
NUnique(d, c, k) == Cardinality({d[i].user_id : i \in GroupRows(d, c, k)})

\* groupby(...).nunique().reset_index(): one row per non-empty group
CohortData(d) ==
    {[first_purchase_month |-> d[i].first_purchase_month,
      cohort_index |-> d[i].cohort_index,
      user_id |-> NUnique(d, d[i].first_purchase_month, d[i].cohort_index)]
        : i \in 1..Len(d)}

\* pivot_table: sorted index and columns, NaN where a group is absent (the
\* default aggregation, the mean, is over the single row of each group)
PivotTable(cd) ==
    LET idx == {g.first_purchase_month : g \in cd}
        cols == {g.cohort_index : g \in cd}
    IN  [index |-> SortedSeq(idx),
         columns |-> SortedSeq(cols),
         data |-> [p \in idx \X cols |->
                     IF \E g \in cd : g.first_purchase_month = p[1] /\ g.cohort_index = p[2]
                     THEN FromInt((CHOOSE g \in cd : g.first_purchase_month = p[1]
                                                   /\ g.cohort_index = p[2]).user_id)
                     ELSE NaN]]

PivotCounts ==
    /\ pc = "pivot"
    /\ cohort_counts' = PivotTable(CohortData(df))
    /\ pc' = "rates"
    /\ UNCHANGED <<file, df, retention_rates, is_new_cohort,
                   risk_report, console, csv, xlsx>>

----------------------------------------------------------------------------
\* Data frame helpers

Digits == <<"0", "1", "2", "3", "4", "5", "6", "7", "8", "9">>

RECURSIVE Str(_)
Str(k) == IF k < 10 THEN Digits[k + 1] ELSE Str(k \div 10) \o Digits[(k % 10) + 1]

\* f'Month_{col}' (line 79)
MonthCol(k) == "Month_" \o Str(k)

\* frame[col] = series: a new column goes last, an existing one is replaced
SetColumn(frame, col, series) ==
    LET cols == IF col \in Range(frame.columns) THEN frame.columns
                ELSE Append(frame.columns, col)
    IN  [index |-> frame.index,
         columns |-> cols,
         data |-> [p \in Range(frame.index) \X Range(cols) |->
                      IF p[2] = col THEN series[p[1]] ELSE frame.data[p]]]

\* frame[[c1, c2, ...]].copy()
SelectColumns(frame, cols) ==
    [index |-> frame.index,
     columns |-> cols,
     data |-> [p \in Range(frame.index) \X Range(cols) |-> frame.data[p]]]

\* frame.sort_index(ascending=...): the rows reordered, the cells untouched
SortIndex(frame, ascending) ==
    LET up == SortedSeq(Range(frame.index))
    IN  [index |-> IF ascending THEN up ELSE Reverse(up),
         columns |-> frame.columns,
         data |-> frame.data]

\* The rows of a frame as written out, in the frame's own row order
RowOf(frame, c) ==
    [first_purchase_month |-> c,
     cells |-> [j \in 1..Len(frame.columns) |-> frame.data[<<c, frame.columns[j]>>]]]

Rows(frame) == [i \in 1..Len(frame.index) |-> RowOf(frame, frame.index[i])]

----------------------------------------------------------------------------
\* Lines 69-80: the retention rate matrix, its columns renamed Month_<k>

\* cohort_counts.divide(cohort_counts.iloc[:, 0], axis=0), columns renamed
RetentionMatrix(cc) ==
    LET first == cc.columns[1]
        cohort_size == [c \in Range(cc.index) |-> cc.data[<<c, first>>]]
        names == [j \in 1..Len(cc.columns) |-> MonthCol(cc.columns[j])]
    IN  [index |-> cc.index,
         columns |-> names,
         data |-> [p \in Range(cc.index) \X Range(names) |->
                      LET k == CHOOSE k \in Range(cc.columns) : MonthCol(k) = p[2]
                      IN  FDiv(cc.data[<<p[1], k>>], cohort_size[p[1]])]]

\* An empty order table gives a count matrix without columns, and iloc[:, 0]
\* raises IndexError, which nothing catches.
ComputeRates ==
    /\ pc = "rates"
    /\ IF Len(cohort_counts.columns) = 0
       THEN /\ console' = Append(console, Msg("Traceback: IndexError"))
            /\ pc' = "crashed"
            /\ UNCHANGED retention_rates
       ELSE /\ console' = Append(console, Msg("Starting Enhanced Churn Risk Reporting..."))
            /\ retention_rates' = RetentionMatrix(cohort_counts)
            /\ pc' = "guard"
    /\ UNCHANGED <<file, df, cohort_counts, is_new_cohort, risk_report, csv, xlsx>>

----------------------------------------------------------------------------
\* Lines 82-86: make sure the Month_2 column exists

AllNaN(frame) == [c \in Range(frame.index) |-> NaN]

SynthCounts_Skip(cc) == cc

\* cohort_counts[2] = np.nan
SynthCounts(cc) == SetColumn(cc, 2, AllNaN(cc))

Month2Guard ==
    /\ pc = "guard"
    /\ IF "Month_2" \notin Range(retention_rates.columns)
       THEN /\ console' = Append(console,
                    Msg("Warning: Not enough historical data (less than 3 months) to calculate Month 2 churn."))
            /\ retention_rates' = SetColumn(retention_rates, "Month_2", AllNaN(retention_rates))
            /\ cohort_counts' = SynthCounts(cohort_counts)
       ELSE UNCHANGED <<console, retention_rates, cohort_counts>>
    /\ pc' = "classify"
    /\ UNCHANGED <<file, df, is_new_cohort, risk_report, csv, xlsx>>

----------------------------------------------------------------------------
\* Lines 88-109: is_new_cohort, fillna, PctDrop_M0_M2, ChurnFlag

IsNewCohort_AfterFill(cc) ==
    [c \in Range(cc.index) |-> IsNa(FillNa(cc.data[<<c, 2>>], FromInt(0)))]

\* cohort_counts[2].isna()
IsNewCohort(cc) == [c \in Range(cc.index) |-> IsNa(cc.data[<<c, 2>>])]

\* retention_rates.fillna(0, inplace=True)
FillFrame(frame) ==
    [index |-> frame.index,
     columns |-> frame.columns,
     data |-> [p \in DOMAIN frame.data |-> FillNa(frame.data[p], FromInt(0))]]

PctDrop_Reversed(frame) ==
    [c \in Range(frame.index) |->
        FMulInt(FSub(frame.data[<<c, "Month_2">>], frame.data[<<c, "Month_0">>]), 100)]

\* (retention_rates['Month_0'] - retention_rates['Month_2']) * 100
PctDrop(frame) ==
    [c \in Range(frame.index) |->
        FMulInt(FSub(frame.data[<<c, "Month_0">>], frame.data[<<c, "Month_2">>]), 100)]

conditions_GE(is_new, frame) ==
    << is_new,
       [c \in Range(frame.index) |-> FGeInt(frame.data[<<c, "PctDrop_M0_M2">>], 70)],
       [c \in Range(frame.index) |-> FGtInt(frame.data[<<c, "PctDrop_M0_M2">>], 40)] >>

conditions(is_new, frame) ==
    << is_new,
       [c \in Range(frame.index) |-> FGtInt(frame.data[<<c, "PctDrop_M0_M2">>], 70)],
       [c \in Range(frame.index) |-> FGtInt(frame.data[<<c, "PctDrop_M0_M2">>], 40)] >>

choices == <<"New Cohort", "High Risk", "Moderate Risk">>

\* np.select(condlist, choicelist, default): the first condition that holds
NpSelect(condlist, choicelist, default, c) ==
    LET hits == {i \in 1..Len(condlist) : condlist[i][c]}
    IN  IF hits = {} THEN default ELSE choicelist[SetMin(hits)]

\* cohort_counts[2] of a frame without that column raises KeyError.
Classify ==
    /\ pc = "classify"
    /\ IF 2 \notin Range(cohort_counts.columns)
       THEN /\ console' = Append(console, Msg("Traceback: KeyError"))
            /\ pc' = "crashed"
            /\ UNCHANGED <<is_new_cohort, retention_rates>>
       ELSE LET is_new == IsNewCohort(cohort_counts)
                filled == FillFrame(retention_rates)
                dropped == SetColumn(filled, "PctDrop_M0_M2", PctDrop(filled))
                conds == conditions(is_new, dropped)
                flags == [c \in Range(dropped.index) |-> NpSelect(conds, choices, "Stable", c)]
            IN  /\ is_new_cohort' = is_new
                /\ retention_rates' = SetColumn(dropped, "ChurnFlag", flags)
                /\ pc' = "report"
                /\ UNCHANGED console
    /\ UNCHANGED <<file, df, cohort_counts, risk_report, csv, xlsx>>

----------------------------------------------------------------------------
\* Lines 111-126: the final report

Alert_Swapped(flag) ==
    IF flag = "High Risk" THEN "Investigate Cohort"
    ELSE IF flag = "Moderate Risk" THEN "Immediate Action Needed"
    ELSE IF flag = "New Cohort" THEN "Too Early to Tell"
    ELSE "Healthy Retention"

\* The nested np.where of lines 113-122 on one row (each message without
\* the emoji the script puts in front of it)
Alert(flag) ==
    IF flag = "High Risk" THEN "Immediate Action Needed"
    ELSE IF flag = "Moderate Risk" THEN "Investigate Cohort"
    ELSE IF flag = "New Cohort" THEN "Too Early to Tell"
    ELSE "Healthy Retention"

ReportColumns == <<"Month_0", "Month_2", "PctDrop_M0_M2", "ChurnFlag">>

\* risk_report[col] *= 100
Scale100(frame, col) ==
    SetColumn(frame, col, [c \in Range(frame.index) |-> FMulInt(frame.data[<<c, col>>], 100)])

RiskReport(rates) ==
    LET picked == SelectColumns(rates, ReportColumns)
        alerted == SetColumn(picked, "Alert",
                       [c \in Range(picked.index) |-> Alert(picked.data[<<c, "ChurnFlag">>])])
    IN  Scale100(Scale100(alerted, "Month_0"), "Month_2")

BuildReport ==
    /\ pc = "report"
    /\ risk_report' = RiskReport(retention_rates)
    /\ pc' = "print"
    /\ UNCHANGED <<file, df, cohort_counts, retention_rates, is_new_cohort,
                   console, csv, xlsx>>

----------------------------------------------------------------------------
\* Lines 128-134: the console report and the CSV export

\* print(risk_report.sort_index(ascending=False))
PrintReport ==
    /\ pc = "print"
    /\ console' = console \o
          << Msg("--- Churn Risk Analysis Report ---"),
             [text |-> "report", rows |-> Rows(SortIndex(risk_report, FALSE))] >>
    /\ pc' = "csv"
    /\ UNCHANGED <<file, df, cohort_counts, retention_rates, is_new_cohort,
                   risk_report, csv, xlsx>>

\* frame.to_csv(path): the index and every column, in the frame's row order
CsvOf(frame) ==
    [state |-> "written",
     header |-> <<"first_purchase_month">> \o frame.columns,
     rows |-> Rows(frame)]

ExportCsv ==
    /\ pc = "csv"
    /\ csv' = CsvOf(risk_report)
    /\ console' = Append(console, Msg("Churn risk report saved to 'cohort_churn_risk_report.csv'"))
    /\ pc' = "excel"
    /\ UNCHANGED <<file, df, cohort_counts, retention_rates, is_new_cohort,
                   risk_report, xlsx>>

----------------------------------------------------------------------------
\* Lines 136-155: the styled spreadsheet, best effort

\* The lambda of lines 142-147 on one ChurnFlag cell
Background(v) ==
    IF v = "High Risk" THEN "background-color: #ffcccc"
    ELSE IF v = "Moderate Risk" THEN "background-color: #fff3cd"
    ELSE IF v = "Stable" THEN "background-color: #d4edda"
    ELSE "background-color: #f8f9fa"

StyledRows(frame) ==
    LET sorted == SortIndex(frame, FALSE)
    IN  [i \in 1..Len(sorted.index) |->
            [first_purchase_month |-> sorted.index[i],
             cells |-> RowOf(sorted, sorted.index[i]).cells,
             background |-> Background(sorted.data[<<sorted.index[i], "ChurnFlag">>])]]

ExportExcelOk ==
    /\ pc = "excel"
    /\ xlsx' = [state |-> "written",
                header |-> <<"first_purchase_month">> \o risk_report.columns,
                rows |-> StyledRows(risk_report)]
    /\ console' = Append(console,
          Msg("Beautifully formatted Excel report saved to 'formatted_churn_risk_report.xlsx'"))
    /\ pc' = "done"
    /\ UNCHANGED <<file, df, cohort_counts, retention_rates, is_new_cohort,
                   risk_report, csv>>

\* except ImportError: the styling or the spreadsheet package is missing;
\* the import fails before any file is opened
ExportExcelImportError ==
    /\ pc = "excel"
    /\ console' = Append(console,
          Msg("Warning: 'openpyxl' is not installed. Cannot create styled Excel report."))
    /\ pc' = "done"
    /\ UNCHANGED <<file, df, cohort_counts, retention_rates, is_new_cohort,
                   risk_report, csv, xlsx>>

ExportExcelError_Uncaught ==
    /\ pc = "excel"
    /\ console' = Append(console, Msg("Traceback: to_excel"))
    /\ \E st \in {"unwritten", "partial"} :
          xlsx' = [state |-> st, header |-> << >>, rows |-> << >>]
    /\ pc' = "crashed"
    /\ UNCHANGED <<file, df, cohort_counts, retention_rates, is_new_cohort,
                   risk_report, csv>>

\* except Exception as e: any other error while styling or writing; the
\* spreadsheet file may not exist or may be left incomplete
ExportExcelError ==
    /\ pc = "excel"
    /\ console' = Append(console, Msg("An error occurred while creating the Excel report"))
    /\ \E st \in {"unwritten", "partial"} :
          xlsx' = [state |-> st, header |-> << >>, rows |-> << >>]
    /\ pc' = "done"
    /\ UNCHANGED <<file, df, cohort_counts, retention_rates, is_new_cohort,
                   risk_report, csv>>

----------------------------------------------------------------------------
\* The run from interpreter start-up, over every small order table

Analyse ==
    \/ AssignCohorts
    \/ PivotCounts
    \/ ComputeRates
    \/ Month2Guard
    \/ Classify
    \/ BuildReport
    \/ PrintReport
    \/ ExportCsv
    \/ ExportExcelOk
    \/ ExportExcelImportError
    \/ ExportExcelError

Next ==
    \/ GenerateData
    \/ SkipGenerate
    \/ EnvRemoveFile
    \/ LoadOk
    \/ LoadNotFound
    \/ LoadUnreadable
    \/ Analyse

Spec == Init /\ [][Next]_vars

----------------------------------------------------------------------------
\* The analysis (lines 50-155) over cohort-shaped order tables: one cohort
\* of n users who all order in the first month; ret[k] of them order again
\* k months later.  Any number 0..n may return at offset 2; at the other
\* offsets nobody, one user or everybody returns.

OffsetRows(m, k) ==
    [u \in 1..m |-> [user_id |-> u, order_date |-> DateOfOrdinal(FirstOrdinal + k)]]

RECURSIVE CohortTableUpTo(_, _, _)
CohortTableUpTo(n, ret, k) ==
    IF k = 0 THEN OffsetRows(n, 0)
    ELSE CohortTableUpTo(n, ret, k - 1) \o OffsetRows(ret[k], k)

Returning(n) ==
    {ret \in [1..MaxOffset -> 0..n] : \A k \in 1..MaxOffset : k # 2 => ret[k] \in {0, 1, n}}

CohortTables ==
    {CohortTableUpTo(n, ret, MaxOffset) : <<n, ret>> \in
        UNION {{<<m, r>> : r \in Returning(m)} : m \in 1..MaxCohortSize}}

\* The state LoadOk leaves when the file existed at start-up
InitCohort ==
    /\ pc = "prepare"
    /\ \E t \in CohortTables :
          /\ file = [state |-> "ok", table |-> t]
          /\ df = t
    /\ InitRest

SpecCohort == InitCohort /\ [][Analyse]_vars

----------------------------------------------------------------------------
\* Positions of the run at which each result exists

PastAssign == {"pivot", "rates", "guard", "classify", "report", "print", "csv", "excel", "done"}
PastPivot == PastAssign \ {"pivot"}
PastRates == PastPivot \ {"rates"}
PastGuard == PastRates \ {"guard"}
PastClassify == PastGuard \ {"classify"}
PastReport == PastClassify \ {"report"}

\* The order rows of cohort c at offset k, read off the order table
OrdersAt(c, k) ==
    {i \in 1..Len(df) : df[i].first_purchase_month = c /\ df[i].cohort_index = k}

LastMsg == console[Len(console)].text
Printed(text) == \E i \in 1..Len(console) : console[i].text = text

Cell(frame, c, col) == frame.data[<<c, col>>]

----------------------------------------------------------------------------
\* C4: every order's cohort_index is (order year - first-purchase year) * 12
\* + (order month - first-purchase month), where the first-purchase month is
\* the earliest month among the user's orders; it is never negative, it is 0
\* for the orders of the user's first active month, and all orders of a user
\* carry the same cohort.
C4_CohortIndexNonNegative ==
    pc \in PastAssign =>
        /\ Len(df) = Len(file.table)
        /\ \A i \in 1..Len(df) :
              LET r == df[i]
                  own == {df[j].order_date : j \in {x \in 1..Len(df) : df[x].user_id = r.user_id}}
                  first == CHOOSE e \in own : \A o \in own :
                               e.year < o.year \/ (e.year = o.year /\ e.month <= o.month)
              IN  /\ r.user_id = file.table[i].user_id
                  /\ r.order_date = file.table[i].order_date
                  /\ PeriodYear(r.first_purchase_month) = first.year
                  /\ PeriodMonth(r.first_purchase_month) = first.month
                  /\ r.cohort_index = ((r.order_date.year - first.year) * 12)
                                        + (r.order_date.month - first.month)
                  /\ r.cohort_index >= 0
                  /\ (r.order_date = first => r.cohort_index = 0)
                  /\ \A j \in 1..Len(df) :
                        df[j].user_id = r.user_id
                            => df[j].first_purchase_month = r.first_purchase_month

\* An order two months after its user's first order, across the year's end
C4_Witness ==
    /\ pc \in PastAssign
    /\ \E i \in 1..Len(df) :
          /\ df[i].cohort_index = 2
          /\ df[i].order_date.year > PeriodYear(df[i].first_purchase_month)

----------------------------------------------------------------------------
\* C3: for every cohort the raw count at offset 0 is present, is the number
\* of distinct users whose first-purchase month is the cohort, and is at
\* least every other count of the cohort; the first column of the count
\* matrix is offset 0, so the rate at offset 0 is exactly 1 and every rate
\* present lies in [0, 1].
C3_Offset0IsCohortSize ==
    /\ pc \in PastPivot =>
          /\ Range(cohort_counts.index) = {df[i].first_purchase_month : i \in 1..Len(df)}
          /\ Len(cohort_counts.columns) > 0 => cohort_counts.columns[1] = 0
          /\ \A c \in Range(cohort_counts.index) :
                LET members == {df[i].user_id : i \in {x \in 1..Len(df) : df[x].first_purchase_month = c}}
                    size == Cell(cohort_counts, c, 0)
                IN  /\ ~size.nan
                    /\ size.d = 1
                    /\ size.n = Cardinality(members)
                    /\ \A k \in Range(cohort_counts.columns) :
                          LET cnt == Cell(cohort_counts, c, k)
                          IN  cnt.nan \/ (cnt.d = 1 /\ 1 <= cnt.n /\ cnt.n <= size.n)
    /\ pc \in PastRates =>
          \A c \in Range(retention_rates.index) :
              /\ Cell(retention_rates, c, "Month_0") = [nan |-> FALSE, n |-> 1, d |-> 1]
              /\ \A k \in Range(cohort_counts.columns) :
                    LET rate == Cell(retention_rates, c, MonthCol(k))
                        cnt == Cell(cohort_counts, c, k)
                    IN  \/ rate.nan /\ cnt.nan
                        \/ /\ ~rate.nan
                           /\ 0 <= rate.n /\ rate.n <= rate.d
                           /\ cnt.nan => (rate.n = 0 /\ pc \in PastClassify)
                           /\ ~cnt.nan => rate.n * Cell(cohort_counts, c, 0).n = cnt.n * rate.d

\* A cohort of two users in which one user ordered twice in the first month,
\* and one of the two came back later
C3_Witness ==
    /\ pc = "guard"
    /\ \E c \in Range(cohort_counts.index) :
          /\ Cell(cohort_counts, c, 0).n = 2
          /\ Cardinality(OrdersAt(c, 0)) = 3

----------------------------------------------------------------------------
\* C2: is_new_cohort holds of a cohort exactly when no order of the cohort
\* lies at offset 2 (the raw count is missing), at every position after it
\* is computed, so also after the rates are filled with 0; the cohort of the
\* most recent month of the dataset is new and is reported 'New Cohort' /
\* 'Too Early to Tell'.
C2_IsNewIffRawCountMissing ==
    /\ pc \in PastClassify =>
          /\ DOMAIN is_new_cohort = {df[i].first_purchase_month : i \in 1..Len(df)}
          /\ \A c \in DOMAIN is_new_cohort :
                /\ is_new_cohort[c] <=> OrdersAt(c, 2) = {}
                /\ ~Cell(retention_rates, c, "Month_2").nan
                /\ (\A i \in 1..Len(df) : df[i].order_month <= c)
                      => /\ is_new_cohort[c]
                         /\ Cell(retention_rates, c, "ChurnFlag") = "New Cohort"
    /\ pc \in PastReport =>
          \A c \in Range(risk_report.index) :
              (\A i \in 1..Len(df) : df[i].order_month <= c)
                  => /\ Cell(risk_report, c, "ChurnFlag") = "New Cohort"
                     /\ Cell(risk_report, c, "Alert") = "Too Early to Tell"

\* Two cohorts: the older one came back at offset 2, the one of the most
\* recent month could not yet
C2_Witness ==
    /\ pc = "done"
    /\ \E c, e \in Range(risk_report.index) :
          /\ c < e
          /\ ~is_new_cohort[c]
          /\ is_new_cohort[e]
          /\ \A i \in 1..Len(df) : df[i].order_month <= e
          /\ Cell(risk_report, e, "Alert") = "Too Early to Tell"

----------------------------------------------------------------------------
NoOrderAtOffset2 == Len(df) > 0 /\ \A i \in 1..Len(df) : df[i].cohort_index # 2

\* C6: when no order lies at offset 2, the run does not fail: both the count
\* matrix and the rate table get an offset-2 column that is missing in every
\* row, every cohort is a new cohort, and every row of the report is
\* 'New Cohort' / 'Too Early to Tell'.
C6_NoMonth2Column ==
    /\ (pc = "crashed" /\ Len(df) > 0) => ~NoOrderAtOffset2
    /\ (pc \in PastGuard /\ NoOrderAtOffset2) =>
          /\ Printed("Warning: Not enough historical data (less than 3 months) to calculate Month 2 churn.")
          /\ 2 \in Range(cohort_counts.columns)
          /\ "Month_2" \in Range(retention_rates.columns)
          /\ \A c \in Range(cohort_counts.index) : Cell(cohort_counts, c, 2) = NaN
          /\ pc = "classify" =>
                \A c \in Range(retention_rates.index) : Cell(retention_rates, c, "Month_2") = NaN
    /\ (pc \in PastClassify /\ NoOrderAtOffset2) =>
          \A c \in Range(retention_rates.index) :
              /\ is_new_cohort[c]
              /\ Cell(retention_rates, c, "ChurnFlag") = "New Cohort"
    /\ (pc \in PastReport /\ NoOrderAtOffset2) =>
          /\ Len(risk_report.index) > 0
          /\ \A c \in Range(risk_report.index) :
                /\ Cell(risk_report, c, "ChurnFlag") = "New Cohort"
                /\ Cell(risk_report, c, "Alert") = "Too Early to Tell"
    /\ (pc \in {"excel", "done"} /\ NoOrderAtOffset2) =>
          \A i \in 1..Len(csv.rows) :
              /\ csv.rows[i].cells[4] = "New Cohort"
              /\ csv.rows[i].cells[5] = "Too Early to Tell"

\* A finished run over two cohorts, neither with an order at offset 2
C6_Witness ==
    /\ pc = "done"
    /\ NoOrderAtOffset2
    /\ Len(csv.rows) = 2
    /\ \A c \in Range(risk_report.index) : Cell(risk_report, c, "ChurnFlag") = "New Cohort"

----------------------------------------------------------------------------
\* C5: the CSV report holds one row per cohort with the columns Month_0,
\* Month_2, PctDrop_M0_M2, ChurnFlag, Alert, its rows in descending order of
\* first_purchase_month.
C5_CsvSortedDescending ==
    csv.state = "written" =>
        /\ csv.header = <<"first_purchase_month", "Month_0", "Month_2",
                          "PctDrop_M0_M2", "ChurnFlag", "Alert">>
        /\ {csv.rows[i].first_purchase_month : i \in 1..Len(csv.rows)}
              = {df[i].first_purchase_month : i \in 1..Len(df)}
        /\ \A i, j \in 1..Len(csv.rows) :
              i < j => csv.rows[i].first_purchase_month > csv.rows[j].first_purchase_month

----------------------------------------------------------------------------
ReportPrinted ==
    \E i \in 1..Len(console) :
        console[i] = [text |-> "report", rows |-> Rows(SortIndex(risk_report, FALSE))]

\* C7: a failure of the spreadsheet export, by a missing package or by any
\* other exception, is reported and the run ends normally; when the
\* spreadsheet step starts the report has been printed and the CSV written,
\* and the step changes neither.
C7_ExcelFailureIsCaught ==
    [][pc = "excel" =>
          /\ csv.state = "written"
          /\ csv.rows = Rows(risk_report)
          /\ ReportPrinted
          /\ pc' = "done"
          /\ csv' = csv
          /\ risk_report' = risk_report
          /\ Len(console') = Len(console) + 1
          /\ SubSeq(console', 1, Len(console)) = console
          /\ xlsx'.state # "written" =>
                console'[Len(console')].text \in
                    {"Warning: 'openpyxl' is not installed. Cannot create styled Excel report.",
                     "An error occurred while creating the Excel report"}]_vars

\* A finished run whose spreadsheet was left incomplete by an exception
C7_Witness ==
    /\ pc = "done"
    /\ xlsx.state = "partial"
    /\ LastMsg = "An error occurred while creating the Excel report"
    /\ csv.state = "written"
    /\ ReportPrinted

----------------------------------------------------------------------------
NothingProduced ==
    /\ df = << >>
    /\ cohort_counts = EmptyFrame
    /\ retention_rates = EmptyFrame
    /\ risk_report = EmptyFrame
    /\ csv.state = "unwritten"
    /\ xlsx.state = "unwritten"

\* C8: when the order file cannot be loaded, the error is reported and the
\* run ends there: no report is computed and neither output file is written.
\* A file absent at start-up is generated before the load, and the load of a
\* file that is present and readable succeeds.
C8_LoadFailureEndsRun ==
    /\ [](Printed("Error: 'synthetic_orders.csv' not found.")
            => (pc = "exited" /\ NothingProduced))
    /\ [](Printed("Traceback: read_csv") => (pc = "crashed" /\ NothingProduced))
    /\ [][pc \notin {"exited", "crashed"}]_vars
    /\ [][(pc = "start" /\ file.state = "absent")
            => (file'.state = "ok" /\ pc' = "load"
                /\ console' = console \o <<Msg("Generating 'synthetic_orders.csv' as it was not found..."),
                                            Msg("Data generation complete.")>>)]_vars
    /\ [][(pc = "load" /\ pc' # "load")
            => IF file.state = "ok"
               THEN pc' = "prepare" /\ df' = file.table /\ console' = console
               ELSE pc' \in {"exited", "crashed"} /\ Len(console') = Len(console) + 1]_vars

\* The file was absent, was generated, and was removed again before the load
C8_Witness ==
    /\ pc = "exited"
    /\ Printed("Data generation complete.")
    /\ LastMsg = "Error: 'synthetic_orders.csv' not found."
    /\ csv.state = "unwritten"

----------------------------------------------------------------------------
\* C1: ChurnFlag is the first match of: is_new_cohort -> 'New Cohort';
\* PctDrop_M0_M2 > 70 -> 'High Risk'; PctDrop_M0_M2 > 40 -> 'Moderate Risk';
\* otherwise 'Stable'.  The comparisons are strict: a cohort that is not new
\* is 'Moderate Risk' at exactly 70 and 'Stable' at exactly 40, and a new
\* cohort is 'New Cohort' whatever its PctDrop_M0_M2.
C1_ChurnFlagOrderedRule ==
    pc \in PastClassify =>
        \A c \in Range(retention_rates.index) :
            LET drop == Cell(retention_rates, c, "PctDrop_M0_M2")
                flag == Cell(retention_rates, c, "ChurnFlag")
            IN  /\ ~drop.nan
                /\ drop.d > 0
                /\ is_new_cohort[c] => flag = "New Cohort"
                /\ (~is_new_cohort[c] /\ drop.n > 70 * drop.d) => flag = "High Risk"
                /\ (~is_new_cohort[c] /\ drop.n <= 70 * drop.d /\ drop.n > 40 * drop.d)
                      => flag = "Moderate Risk"
                /\ (~is_new_cohort[c] /\ drop.n <= 40 * drop.d) => flag = "Stable"

\* Ten users of whom three came back at offset 2: a drop of exactly 70
C1_Witness ==
    /\ pc \in PastClassify
    /\ \E c \in Range(retention_rates.index) :
          /\ ~is_new_cohort[c]
          /\ Cell(retention_rates, c, "PctDrop_M0_M2") = [nan |-> FALSE, n |-> 70, d |-> 1]
          /\ Cell(retention_rates, c, "ChurnFlag") = "Moderate Risk"

----------------------------------------------------------------------------
AlertOf ==
    [f \in {"High Risk", "Moderate Risk", "New Cohort", "Stable"} |->
        CASE f = "High Risk" -> "Immediate Action Needed"
          [] f = "Moderate Risk" -> "Investigate Cohort"
          [] f = "New Cohort" -> "Too Early to Tell"
          [] f = "Stable" -> "Healthy Retention"]

\* C9: Alert is fixed by ChurnFlag: 'High Risk' -> 'Immediate Action
\* Needed', 'Moderate Risk' -> 'Investigate Cohort', 'New Cohort' -> 'Too
\* Early to Tell', 'Stable' -> 'Healthy Retention', in the report and in the
\* rows written to the CSV file.
C9_AlertFixedByChurnFlag ==
    /\ pc \in PastReport =>
          \A c \in Range(risk_report.index) :
              /\ Cell(risk_report, c, "ChurnFlag") \in DOMAIN AlertOf
              /\ Cell(risk_report, c, "ChurnFlag") = Cell(retention_rates, c, "ChurnFlag")
              /\ Cell(risk_report, c, "Alert") = AlertOf[Cell(risk_report, c, "ChurnFlag")]
    /\ csv.state = "written" =>
          \A i \in 1..Len(csv.rows) : csv.rows[i].cells[5] = AlertOf[csv.rows[i].cells[4]]

\* A written report with a 'High Risk' row
C9_Witness ==
    /\ csv.state = "written"
    /\ \E c \in Range(risk_report.index) :
          /\ Cell(risk_report, c, "ChurnFlag") = "High Risk"
          /\ Cell(risk_report, c, "Alert") = "Immediate Action Needed"

----------------------------------------------------------------------------
\* C10: PctDrop_M0_M2 lies in [0, 100]; it is 100, the filled Month_2 rate
\* being 0, exactly for the rows flagged 'New Cohort'; 'High Risk' rows have
\* 70 < PctDrop_M0_M2 < 100; a cohort without an order at offset 2 is
\* 'New Cohort', never 'High Risk', also when it has orders at later offsets.
C10_FullDropIsNewCohort ==
    pc \in PastClassify =>
        \A c \in Range(retention_rates.index) :
            LET drop == Cell(retention_rates, c, "PctDrop_M0_M2")
                month2 == Cell(retention_rates, c, "Month_2")
                flag == Cell(retention_rates, c, "ChurnFlag")
            IN  /\ ~drop.nan /\ ~month2.nan
                /\ 0 <= drop.n /\ drop.n <= 100 * drop.d
                /\ (drop.n = 100 * drop.d) <=> (month2.n = 0)
                /\ (drop.n = 100 * drop.d) <=> (flag = "New Cohort")
                /\ flag = "High Risk" => (drop.n > 70 * drop.d /\ drop.n < 100 * drop.d)
                /\ OrdersAt(c, 2) = {} => flag = "New Cohort"

\* Nobody came back at offset 2, somebody did at offset 3
C10_Witness ==
    /\ pc \in PastClassify
    /\ \E c \in Range(retention_rates.index) :
          /\ OrdersAt(c, 2) = {}
          /\ OrdersAt(c, 3) # {}
          /\ Cell(retention_rates, c, "PctDrop_M0_M2") = [nan |-> FALSE, n |-> 100, d |-> 1]
          /\ Cell(retention_rates, c, "ChurnFlag") = "New Cohort"

====
